---- MODULE Spec2Model ----
(***************************************************************************)
(* Model of coin-updates (src/main.py): a start-up report run followed by  *)
(* a blocking interval scheduler that is seeded from a daily anchor time.  *)
(***************************************************************************)
EXTENDS Integers, Sequences, FiniteSets, TLC

VARIABLES
    WATCHED_COINS,    \* module-level watch list (line 49)
    EMAIL_USER,       \* line 15, NoValue when the variable is unset or empty
    EMAIL_PASS,       \* line 16
    RECIPIENT_EMAIL,  \* line 17
    START_TIME,       \* line 22, the anchor string as a sequence of characters
    UPDATE_FREQUENCY, \* line 20, minutes
    now,              \* wall clock, seconds since midnight of day 0
    pc,               \* position of the process (__main__ / main / scheduler)
    exit_cause,       \* why the process terminated, "none" while it lives
    run,              \* the send_crypto_update call in flight (or the last one)
    smtp,             \* the transport session of the dispatch in flight
    sent,             \* messages handed to the transport, in order
    stats,            \* counters over the whole process
    next_run,         \* result of get_next_run_time (line 198)
    sched,            \* the BlockingScheduler: job, next fire, instances
    fired,            \* fire times for which the job was submitted
    rendered,         \* last result of create_crypto_email_body applied alone
    env,              \* the watch-list variables of the process environment
    formatted         \* last result of format_percentage applied alone

vars == <<WATCHED_COINS, EMAIL_USER, EMAIL_PASS, RECIPIENT_EMAIL, START_TIME,
          UPDATE_FREQUENCY, now, pc, exit_cause, run, smtp, sent, stats,
          next_run, sched, fired, rendered, env, formatted>>

-----------------------------------------------------------------------------
(* Bounds of the model *)

MaxCoins == 2
MaxRecords == 2
MaxFires == 2
MaxTicks == 2
MaxPct == 30

(* Values *)

NoValue == "<unset>"
None == "<None>"
NoKey == "<no key>"

WatchIds == {"bitcoin", "ethereum"}
ApiIds == WatchIds \cup {"solana"}

SeqsUpTo(S, n) == UNION {[1..k -> S] : k \in 0..n}

\* str.upper() on the identifiers in play
Upper(s) ==
    CASE s = "bitcoin" -> "BITCOIN"
      [] s = "ethereum" -> "ETHEREUM"
      [] s = "solana" -> "SOLANA"
      [] OTHER -> s

-----------------------------------------------------------------------------
(* Market records: what response.json() holds, one dict per returned asset. *)
(* current_price is a number, null, or the key is missing; each change     *)
(* figure is a number (tenths of a percent) or null.                       *)

\* an optional number: <<>> is null (None), <<v>> is the number v
Null == <<>>
Some(v) == <<v>>

PriceValues == {NoKey, None, "1234.5"}
ChangeProfiles ==
    { <<Some(23), Some(0), Some(-15)>>, <<Null, Null, Null>> }

MarketRecord(i, p, ch) ==
    [id |-> i, current_price |-> p, pct24h |-> ch[1], pct7d |-> ch[2],
     pct30d |-> ch[3]]

MarketRecords ==
    { MarketRecord(i, p, ch) : i \in ApiIds, p \in PriceValues,
                               ch \in ChangeProfiles }

-----------------------------------------------------------------------------
(* format_percentage, lines 73-77 *)

\* a variant that colours zero as a gain
format_percentage_zero_green(value) ==
    IF value = Null
    THEN [text |-> "N/A", color |-> "none"]
    ELSE [text |-> value[1], color |-> IF value[1] >= 0 THEN "green" ELSE "red"]

\* value is an optional number of tenths of a percent; the API never sends
\* the string 'N/A', so that alternative of line 74 has no input here
format_percentage(value) ==
    IF value = Null
    THEN [text |-> "N/A", color |-> "none"]
    ELSE [text |-> value[1], color |-> IF value[1] > 0 THEN "green" ELSE "red"]

(* create_crypto_email_body, lines 79-100 *)

\* line 83: {coin['id']: coin for coin in coins_data}; a later record with
\* the same id overwrites an earlier one
coins_dict(coins_data) ==
    [i \in {coins_data[k].id : k \in 1..Len(coins_data)} |->
        coins_data[CHOOSE k \in 1..Len(coins_data) :
            /\ coins_data[k].id = i
            /\ \A j \in 1..Len(coins_data) : coins_data[j].id = i => j <= k]]

\* lines 87-97, one iteration of the loop: the item appended for coin_id, or
\* the exception that leaves the try block uncaught
render_item(dict, coin_id) ==
    IF coin_id \notin DOMAIN dict
    THEN [raised |-> "none",
          item |-> [kind |-> "error", coin_id |-> coin_id, key |-> coin_id]]
    ELSE LET coin == dict[coin_id] IN
         IF coin.current_price = NoKey
         THEN [raised |-> "none",
               item |-> [kind |-> "error", coin_id |-> coin_id,
                         key |-> "current_price"]]
         ELSE IF coin.current_price = None
         THEN [raised |-> "TypeError", item |-> <<>>]
         ELSE [raised |-> "none",
               item |-> [kind |-> "entry", name |-> Upper(coin.id),
                         price |-> coin.current_price,
                         c24h |-> format_percentage(coin.pct24h),
                         c7d |-> format_percentage(coin.pct7d),
                         c30d |-> format_percentage(coin.pct30d)]]

RECURSIVE render_loop(_, _, _)
render_loop(dict, coins, html_body) ==
    IF coins = <<>>
    THEN [raised |-> "none", body |-> html_body]
    ELSE LET r == render_item(dict, Head(coins)) IN
         IF r.raised # "none"
         THEN [raised |-> r.raised, body |-> <<>>]
         ELSE render_loop(dict, Tail(coins), Append(html_body, r.item))

\* the loop runs over the module-level WATCHED_COINS (line 86), passed here
\* as `watched`
create_crypto_email_body(watched, coins_data) ==
    render_loop(coins_dict(coins_data), watched, <<>>)

-----------------------------------------------------------------------------
(* Wall-clock arithmetic: datetimes are seconds since midnight of day 0 *)

SecondsPerMinute == 60
MinutesPerHour == 60
HoursPerDay == 24
SecondsPerHour == SecondsPerMinute * MinutesPerHour
SecondsPerDay == SecondsPerHour * HoursPerDay

DateOf(t) == t \div SecondsPerDay
Combine(date, hour, minute) ==
    date * SecondsPerDay + hour * SecondsPerHour + minute * SecondsPerMinute

(* Strings that are parsed are sequences of one-character strings *)

Digits == {"0", "1", "2", "3", "4", "5", "6", "7", "8", "9"}
DigitVal(c) ==
    CASE c = "0" -> 0 [] c = "1" -> 1 [] c = "2" -> 2 [] c = "3" -> 3
      [] c = "4" -> 4 [] c = "5" -> 5 [] c = "6" -> 6 [] c = "7" -> 7
      [] c = "8" -> 8 [] c = "9" -> 9

\* str.split(sep): the fields between the separators, always at least one
RECURSIVE split(_, _)
split(s, sep) ==
    IF \A k \in 1..Len(s) : s[k] # sep
    THEN <<s>>
    ELSE LET k == CHOOSE j \in 1..Len(s) :
                      s[j] = sep /\ \A i \in 1..(j - 1) : s[i] # sep
         IN <<SubSeq(s, 1, k - 1)>> \o split(SubSeq(s, k + 1, Len(s)), sep)

RECURSIVE strip(_)
strip(s) ==
    IF s = <<>> THEN s
    ELSE IF Head(s) = " " THEN strip(Tail(s))
    ELSE IF s[Len(s)] = " " THEN strip(SubSeq(s, 1, Len(s) - 1))
    ELSE s

RECURSIVE digits_value(_, _)
digits_value(s, acc) ==
    IF s = <<>> THEN acc
    ELSE digits_value(Tail(s), acc * 10 + DigitVal(Head(s)))

\* int(s): surrounding blanks are ignored, one optional sign, then at least
\* one decimal digit; anything else is a ValueError
int(s) ==
    LET t == strip(s)
        signed == t # <<>> /\ Head(t) \in {"-", "+"}
        d == IF signed THEN Tail(t) ELSE t
    IN IF d = <<>> \/ \E k \in 1..Len(d) : d[k] \notin Digits
       THEN [ok |-> FALSE, val |-> 0]
       ELSE [ok |-> TRUE,
             val |-> IF signed /\ Head(t) = "-"
                     THEN 0 - digits_value(d, 0) ELSE digits_value(d, 0)]

(* get_next_run_time, lines 137-164 *)

\* lines 143-146: hour, minute = map(int, START_TIME.split(':')) followed by
\* time(hour, minute); exc is the exception raised, "none" when both succeed
parse_start_time(start) ==
    LET parts == split(start, ":")
        failed == [exc |-> "ValueError", hour |-> 0, minute |-> 0]
    IN
    IF Len(parts) # 2 THEN failed
    ELSE LET h == int(parts[1])
             m == int(parts[2])
         IN IF ~h.ok \/ ~m.ok THEN failed
            ELSE IF h.val \notin 0..(HoursPerDay - 1)
                    \/ m.val \notin 0..(MinutesPerHour - 1)
            THEN failed
            ELSE [exc |-> "none", hour |-> h.val, minute |-> m.val]

\* a variant that keeps today's moment when it equals the clock reading
anchored_run_strict(clock, hour, minute) ==
    LET today == Combine(DateOf(clock), hour, minute) IN
    IF today < clock THEN today + SecondsPerDay ELSE today

\* lines 149-158: today at the start time, or tomorrow when that has passed
anchored_run(clock, hour, minute) ==
    LET today == Combine(DateOf(clock), hour, minute) IN
    IF today <= clock THEN today + SecondsPerDay ELSE today

\* a variant handler for another exception class
except_type_error(exc) == exc = "TypeError"

\* line 161, `except ValueError`
except_value_error(exc) == exc = "ValueError"

get_next_run_time(start, clock) ==
    LET p == parse_start_time(start) IN
    IF p.exc = "none"
    THEN [at |-> anchored_run(clock, p.hour, p.minute), fallback |-> FALSE,
          raised |-> "none"]
    ELSE IF except_value_error(p.exc)
    THEN [at |-> clock, fallback |-> TRUE, raised |-> "none"]
    ELSE [at |-> 0, fallback |-> FALSE, raised |-> p.exc]

-----------------------------------------------------------------------------
(* Configuration the process can be started with *)

\* anchor strings with the hour and minute they denote
WellFormedAnchors ==
    { [text |-> <<"0", "9", ":", "0", "0">>, hour |-> 9, minute |-> 0],
      [text |-> <<"0", "0", ":", "0", "0">>, hour |-> 0, minute |-> 0],
      [text |-> <<"2", "3", ":", "5", "9">>, hour |-> 23, minute |-> 59],
      [text |-> <<"9", ":", "5">>, hour |-> 9, minute |-> 5],
      [text |-> <<"1", "4", ":", "3", "0">>, hour |-> 14, minute |-> 30] }

\* anchor strings that are not an hour:minute of the 24-hour clock
MalformedAnchors ==
    { <<"2", "5", ":", "9", "9">>,
      <<"2", "4", ":", "0", "0">>,
      <<"1", "2", ":", "6", "0">>,
      <<"-", "1", ":", "3", "0">>,
      <<"a", "b", ":", "c", "d">>,
      <<"0", "9", ":", "x">>,
      <<"0", "9", "0", "0">>,
      <<"0", "9", ":", "0", "0", ":", "0", "0">>,
      <<"0", "9", ":">>,
      <<>> }

AnchorStrings == {a.text : a \in WellFormedAnchors} \cup MalformedAnchors

ClockAt(day, hour, minute, second) == Combine(day, hour, minute) + second

\* UPDATE_FREQUENCY_MINUTES: every minute, and the default of line 20
DefaultFrequency == 60
FrequencySamples == {1, DefaultFrequency}

HardcodedRecipient == "g_janota@outlook.com"
Subject == "Crypto Currency Update"

IdleRun ==
    [stage |-> "Idle", caller |-> "none", coins_to_fetch |-> <<>>,
     recipient_email |-> NoValue, fetch |-> "pending", fetches |-> 0,
     crypto_data |-> <<>>, records |-> 0, rendered |-> FALSE,
     email_body |-> <<>>, dispatches |-> 0, sessions |-> 0,
     error |-> "none", outcome |-> "pending", io |-> "none",
     shape |-> "none"]

NoSession == [state |-> "none", msg |-> <<>>]
NoRender == [done |-> FALSE, coins_data |-> <<>>, raised |-> "none", body |-> <<>>]
NoNextRun ==
    [set |-> FALSE, at |-> 0, fallback |-> FALSE, raised |-> "none",
     clock |-> 0]
NoSched ==
    [started |-> FALSE, job |-> FALSE, next_run_time |-> 0, interval |-> 0,
     first_fire |-> 0, instances |-> <<>>]
NoStats ==
    [fetch_calls |-> 0, empty_fetches |-> 0, dispatches |-> 0,
     anchor_reads |-> 0, job_calls |-> 0, job_errors |-> 0, skipped |-> 0,
     missed |-> 0, ticks |-> 0]
\* os.getenv of a variable that is not set
Unset == [set |-> FALSE, text |-> <<>>]
NoEnv == [WATCHED_COINS |-> Unset, WATCHED_COINS_LIST |-> Unset]
NoFormat == [done |-> FALSE, value |-> <<>>, text |-> "", color |-> ""]

-----------------------------------------------------------------------------
(* get_watched_coins, lines 24-46 *)

\* Python values that a watch list can hold
PyStr(chars) == [t |-> "str", v |-> chars]
PyList(items) == [t |-> "list", v |-> items]

\* first position at or after i that holds no blank
RECURSIVE skip_ws(_, _)
skip_ws(s, i) ==
    IF i <= Len(s) /\ s[i] = " " THEN skip_ws(s, i + 1) ELSE i

JsonFail == [ok |-> FALSE, val |-> PyList(<<>>), next |-> 0]

\* a string literal that opens at position i; escapes are not in the inputs
json_string(s, i) ==
    IF \A j \in (i + 1)..Len(s) : s[j] # "\""
    THEN JsonFail
    ELSE LET j == CHOOSE k \in (i + 1)..Len(s) :
                      s[k] = "\"" /\ \A m \in (i + 1)..(k - 1) : s[m] # "\""
         IN [ok |-> TRUE, val |-> PyStr(SubSeq(s, i + 1, j - 1)),
             next |-> j + 1]

\* json.loads on the texts in play: a value is a string literal or an array
\* of values; numbers, objects and the literals true/false/null do not occur
RECURSIVE json_value(_, _)
RECURSIVE json_elements(_, _, _, _)
json_value(s, i) ==
    IF i > Len(s) THEN JsonFail
    ELSE IF s[i] = "\"" THEN json_string(s, i)
    ELSE IF s[i] = "[" THEN json_elements(s, skip_ws(s, i + 1), <<>>, TRUE)
    ELSE JsonFail

json_elements(s, i, acc, first) ==
    IF i > Len(s) THEN JsonFail
    ELSE IF s[i] = "]" /\ first
    THEN [ok |-> TRUE, val |-> PyList(acc), next |-> i + 1]
    ELSE LET v == json_value(s, i) IN
         IF ~v.ok THEN JsonFail
         ELSE LET j == skip_ws(s, v.next) IN
              IF j > Len(s) THEN JsonFail
              ELSE IF s[j] = ","
              THEN json_elements(s, skip_ws(s, j + 1), Append(acc, v.val),
                                 FALSE)
              ELSE IF s[j] = "]"
              THEN [ok |-> TRUE, val |-> PyList(Append(acc, v.val)),
                    next |-> j + 1]
              ELSE JsonFail

json_loads(s) ==
    LET v == json_value(s, skip_ws(s, 1)) IN
    IF v.ok /\ skip_ws(s, v.next) > Len(s)
    THEN [exc |-> "none", value |-> v.val]
    ELSE [exc |-> "JSONDecodeError", value |-> PyList(<<>>)]

\* line 43: [coin.strip() for coin in coins_list.split(',')]
RECURSIVE strip_each(_)
strip_each(fields) ==
    IF fields = <<>> THEN <<>>
    ELSE <<PyStr(strip(Head(fields)))>> \o strip_each(Tail(fields))

\* lines 33 and 41, `if json_coins:` / `if coins_list:` -- set and not empty
given(variable) == variable.set /\ variable.text # <<>>

\* a variant handler for another exception class
except_key_error(exc) == exc = "KeyError"

\* line 36, `except json.JSONDecodeError`
except_json_decode_error(exc) == exc = "JSONDecodeError"

\* line 46
DefaultCoins ==
    PyList(<<PyStr(<<"b", "i", "t", "c", "o", "i", "n">>),
             PyStr(<<"e", "t", "h", "e", "r", "e", "u", "m">>)>>)

\* lines 39-46, reached when the JSON form is absent or did not parse
delimited_or_default(e) ==
    IF given(e.WATCHED_COINS_LIST)
    THEN PyList(strip_each(split(e.WATCHED_COINS_LIST.text, ",")))
    ELSE DefaultCoins

get_watched_coins(e) ==
    IF given(e.WATCHED_COINS)
    THEN LET r == json_loads(e.WATCHED_COINS.text) IN
         IF r.exc = "none" THEN [raised |-> "none", value |-> r.value]
         ELSE IF except_json_decode_error(r.exc)
         THEN [raised |-> "none", value |-> delimited_or_default(e)]
         ELSE [raised |-> r.exc, value |-> PyList(<<>>)]
    ELSE [raised |-> "none", value |-> delimited_or_default(e)]

(* Values of the two watch-list variables, with what they denote *)

Text(chars) == [set |-> TRUE, text |-> chars]

\* WATCHED_COINS values that are JSON, with the value they denote
ValidJson ==
    { [text |-> <<"[", "\"", "b", "i", "t", "c", "o", "i", "n", "\"", ",", " ", "\"", "e", "t", "h", "e", "r", "e", "u", "m", "\"", "]">>,
       value |-> PyList(<<PyStr(<<"b", "i", "t", "c", "o", "i", "n">>), PyStr(<<"e", "t", "h", "e", "r", "e", "u", "m">>)>>)],
      [text |-> <<"[", "\"", "e", "t", "h", "\"", ",", "\"", "b", "t", "c", "\"", "]">>,
       value |-> PyList(<<PyStr(<<"e", "t", "h">>), PyStr(<<"b", "t", "c">>)>>)],
      [text |-> <<"[", "]">>,
       value |-> PyList(<<>>)],
      [text |-> <<"[", "\"", " ", "b", "t", "c", " ", "\"", "]">>,
       value |-> PyList(<<PyStr(<<" ", "b", "t", "c", " ">>)>>)],
      [text |-> <<"[", "\"", "\"", "]">>,
       value |-> PyList(<<PyStr(<<>>)>>)],
      [text |-> <<"\"", "b", "t", "c", "\"">>,
       value |-> PyStr(<<"b", "t", "c">>)] }

\* WATCHED_COINS values that are not JSON
InvalidJson ==
    { <<"b", "t", "c", ",", "e", "t", "h">>,
      <<"[", "\"", "b", "t", "c", "\"", ",", "]">>,
      <<"[", "\"", "b", "t", "c", "\"">>,
      <<"[", "'", "b", "t", "c", "'", "]">>,
      <<" ">> }

\* WATCHED_COINS_LIST values with their comma-separated fields, blanks
\* around a field removed
DelimitedLists ==
    { [text |-> <<"b", "t", "c", ",", "e", "t", "h">>,
       fields |-> <<<<"b", "t", "c">>, <<"e", "t", "h">>>>],
      [text |-> <<"e", "t", "h", ",", " ", "b", "t", "c", " ">>,
       fields |-> <<<<"e", "t", "h">>, <<"b", "t", "c">>>>],
      [text |-> <<"b", "t", "c", ",", ",", "e", "t", "h">>,
       fields |-> <<<<"b", "t", "c">>, <<>>, <<"e", "t", "h">>>>],
      [text |-> <<"s", "o", "l">>,
       fields |-> <<<<"s", "o", "l">>>>],
      [text |-> <<" ">>,
       fields |-> <<<<>>>>],
      [text |-> <<",">>,
       fields |-> <<<<>>, <<>>>>] }

JsonSettings ==
    {Unset, Text(<<>>)} \cup {Text(j.text) : j \in ValidJson}
        \cup {Text(t) : t \in InvalidJson}
ListSettings ==
    {Unset, Text(<<>>)} \cup {Text(l.text) : l \in DelimitedLists}

-----------------------------------------------------------------------------
(* fetch_crypto_data, lines 51-71 *)

\* what the price API can answer for the requested identifiers: at most one
\* record per requested identifier it recognises, in its own order
HasDistinctIds(recs) ==
    \A i, j \in 1..Len(recs) : recs[i].id = recs[j].id => i = j

ApiResponses(coin_ids) ==
    LET ids == {coin_ids[k] : k \in 1..Len(coin_ids)}
        recs == {r \in MarketRecords : r.id \in ids}
    IN {d \in SeqsUpTo(recs, Cardinality(ids)) : HasDistinctIds(d)}

\* outcomes of lines 66-68: "ok" (a JSON list of records), "ObjectPayload"
\* (status 200 with a JSON object, such as an error document, instead of a
\* list), or the exception raised by requests.get, raise_for_status or
\* response.json(); a payload that is not JSON raises requests'
\* JSONDecodeError (a RequestException) or, with an older requests, a plain
\* ValueError
FetchOutcomes == {"ok", "ObjectPayload", "ConnectionError", "Timeout",
                  "HTTPError", "JSONDecodeError", "ValueError"}
RequestExceptions == {"ConnectionError", "Timeout", "HTTPError",
                      "JSONDecodeError"}

\* lines 65-71: the value returned, or the exception that is not caught
fetch_crypto_data(outcome, data) ==
    IF outcome = "ok"
    THEN [kind |-> "ok", shape |-> "list", data |-> data, exc |-> "none"]
    ELSE IF outcome = "ObjectPayload"
    THEN [kind |-> "ok", shape |-> "object", data |-> <<>>, exc |-> "none"]
    ELSE IF outcome \in RequestExceptions
    THEN [kind |-> "failure", shape |-> "none", data |-> <<>>,
          exc |-> "none"]
    ELSE [kind |-> "raised", shape |-> "none", data |-> <<>>,
          exc |-> outcome]

(* send_crypto_update, lines 114-135 *)

\* a variant that goes on whatever the fetch returned
truthy_unchecked(result) == TRUE

\* line 120, `if crypto_data:` -- None and the empty list are both falsy, a
\* JSON object with a member is truthy
truthy(result) ==
    result.kind = "ok" /\ (result.shape = "object" \/ result.data # <<>>)

\* line 121 on what the fetch returned: over a JSON object the comprehension
\* of line 83 iterates the member names, and coin['id'] on a string is a
\* TypeError
render_payload(watched, shape, coins_data) ==
    IF shape = "object" THEN [raised |-> "TypeError", body |-> <<>>]
    ELSE create_crypto_email_body(watched, coins_data)

\* errors send_email can raise, by the statement that raises them
DispatchErrors ==
    [connect |-> "OSError", starttls |-> "SMTPNotSupportedError",
     login |-> "SMTPAuthenticationError", send |-> "SMTPRecipientsRefused",
     quit |-> "SMTPResponseException"]

\* a variant handler for the transport's own error classes only
caught_smtp_only(exc) == exc # "OSError"

\* line 132, `except Exception`: every error of the dispatch is an Exception
caught(exc) == exc \in {DispatchErrors[k] : k \in DOMAIN DispatchErrors}

\* the call returns `outcome` (or raises `exc`) to its caller: line 221 of
\* __main__, where an exception ends the process
RunEnds(r, outcome, exc) ==
    /\ run' = [r EXCEPT !.stage = "Idle", !.outcome = outcome,
                        !.crypto_data = <<>>, !.email_body = <<>>]
    /\ pc' = IF outcome = "raised" THEN "terminated" ELSE "returned"
    /\ exit_cause' = IF outcome = "raised" THEN exc ELSE exit_cause

\* line 221: send_crypto_update(WATCHED_COINS, "g_janota@outlook.com")
StartupCall ==
    /\ pc = "startup"
    /\ pc' = "startup_run"
    /\ run' = [IdleRun EXCEPT !.stage = "Fetching", !.caller = "startup",
                              !.coins_to_fetch = WATCHED_COINS,
                              !.recipient_email = HardcodedRecipient]
    /\ UNCHANGED <<WATCHED_COINS, EMAIL_USER, EMAIL_PASS, RECIPIENT_EMAIL,
                   START_TIME, UPDATE_FREQUENCY, now, exit_cause, smtp, sent,
                   stats, next_run, sched, fired, rendered, env, formatted>>

\* lines 223-228: the outcome is printed and main() is entered; of the call
\* only `success` is left
ReportOutcome ==
    /\ pc = "returned"
    /\ pc' = "main"
    /\ run' = [IdleRun EXCEPT !.outcome = run.outcome]
    /\ smtp' = NoSession
    /\ UNCHANGED <<WATCHED_COINS, EMAIL_USER, EMAIL_PASS, RECIPIENT_EMAIL,
                   START_TIME, UPDATE_FREQUENCY, now, exit_cause, sent, stats,
                   next_run, sched, fired, rendered, env, formatted>>

\* lines 118-120 and 135
Fetch ==
    /\ run.stage = "Fetching"
    /\ \E outcome \in FetchOutcomes :
       \E data \in (IF outcome = "ok" THEN ApiResponses(run.coins_to_fetch)
                                      ELSE {<<>>}) :
          LET res == fetch_crypto_data(outcome, data)
              r == [run EXCEPT !.fetches = @ + 1,
                               !.fetch = res.kind,
                               !.io = outcome,
                               !.shape = res.shape,
                               !.records = Len(res.data),
                               !.crypto_data = res.data]
          IN IF res.kind = "raised" THEN RunEnds(r, "raised", res.exc)
             ELSE IF truthy(res)
             THEN /\ run' = [r EXCEPT !.stage = "Rendering"]
                  /\ UNCHANGED <<pc, exit_cause>>
             ELSE RunEnds(r, "False", "none")
    /\ stats' = [stats EXCEPT
                   !.fetch_calls = @ + 1,
                   !.empty_fetches =
                       IF run.coins_to_fetch = <<>> THEN @ + 1 ELSE @]
    /\ UNCHANGED <<WATCHED_COINS, EMAIL_USER, EMAIL_PASS, RECIPIENT_EMAIL,
                   START_TIME, UPDATE_FREQUENCY, now, smtp, sent, next_run,
                   sched, fired, rendered, env, formatted>>

\* line 121; a TypeError of the renderer is outside the try of line 123
Render ==
    /\ run.stage = "Rendering"
    /\ LET res == render_payload(WATCHED_COINS, run.shape, run.crypto_data)
           r == [run EXCEPT !.rendered = TRUE]
       IN IF res.raised # "none" THEN RunEnds(r, "raised", res.raised)
          ELSE /\ run' = [r EXCEPT !.stage = "Dispatching",
                                   !.email_body = res.body]
               /\ UNCHANGED <<pc, exit_cause>>
    /\ smtp' = NoSession
    /\ UNCHANGED <<WATCHED_COINS, EMAIL_USER, EMAIL_PASS, RECIPIENT_EMAIL,
                   START_TIME, UPDATE_FREQUENCY, now, sent, stats, next_run,
                   sched, fired, rendered, env, formatted>>

(* send_email, lines 102-112, called at line 124 *)

\* a variant that leaves the session as it is when a statement raises
exit_session_on_success_only(state) == state

\* leaving the with block of line 109 through an exception: the session is
\* closed if the block had been entered
exit_session(state) == IF state = "none" THEN "none" ELSE "closed"

\* a statement of send_email raises exc: the with block (line 109) closes the
\* session if it was entered, and line 132 decides what the run does
DispatchRaises(r, exc) ==
    /\ smtp' = [smtp EXCEPT !.state = exit_session(smtp.state)]
    /\ LET e == [r EXCEPT !.error = exc] IN
       IF caught(exc) THEN RunEnds(e, "False", "none")
                      ELSE RunEnds(e, "raised", exc)

\* lines 103-109: build the message, open the connection
SmtpConnect ==
    /\ run.stage = "Dispatching" /\ smtp.state = "none" /\ run.dispatches = 0
    /\ LET msg == [From |-> EMAIL_USER, To |-> run.recipient_email,
                   Subject |-> Subject, subtype |-> "html",
                   items |-> Len(run.email_body)]
           r == [run EXCEPT !.dispatches = @ + 1]
       IN \E ok \in BOOLEAN :
            IF ok THEN /\ smtp' = [state |-> "open", msg |-> msg]
                       /\ run' = [r EXCEPT !.sessions = @ + 1]
                       /\ UNCHANGED <<pc, exit_cause>>
                  ELSE DispatchRaises(r, DispatchErrors.connect)
    /\ stats' = [stats EXCEPT !.dispatches = @ + 1]
    /\ UNCHANGED <<WATCHED_COINS, EMAIL_USER, EMAIL_PASS, RECIPIENT_EMAIL,
                   START_TIME, UPDATE_FREQUENCY, now, sent, next_run, sched,
                   fired, rendered, env, formatted>>

\* line 110
SmtpStartTls ==
    /\ run.stage = "Dispatching" /\ smtp.state = "open"
    /\ \E ok \in BOOLEAN :
         IF ok THEN /\ smtp' = [smtp EXCEPT !.state = "tls"]
                    /\ UNCHANGED <<run, pc, exit_cause>>
               ELSE DispatchRaises(run, DispatchErrors.starttls)
    /\ UNCHANGED <<WATCHED_COINS, EMAIL_USER, EMAIL_PASS, RECIPIENT_EMAIL,
                   START_TIME, UPDATE_FREQUENCY, now, sent, stats, next_run,
                   sched, fired, rendered, env, formatted>>

\* line 111
SmtpLogin ==
    /\ run.stage = "Dispatching" /\ smtp.state = "tls"
    /\ \E ok \in BOOLEAN :
         IF ok THEN /\ smtp' = [smtp EXCEPT !.state = "authed"]
                    /\ UNCHANGED <<run, pc, exit_cause>>
               ELSE DispatchRaises(run, DispatchErrors.login)
    /\ UNCHANGED <<WATCHED_COINS, EMAIL_USER, EMAIL_PASS, RECIPIENT_EMAIL,
                   START_TIME, UPDATE_FREQUENCY, now, sent, stats, next_run,
                   sched, fired, rendered, env, formatted>>

\* line 112
SmtpSend ==
    /\ run.stage = "Dispatching" /\ smtp.state = "authed"
    /\ \E ok \in BOOLEAN :
         IF ok THEN /\ smtp' = [smtp EXCEPT !.state = "sent"]
                    /\ sent' = Append(sent, smtp.msg)
                    /\ UNCHANGED <<run, pc, exit_cause>>
               ELSE /\ DispatchRaises(run, DispatchErrors.send)
                    /\ UNCHANGED sent
    /\ UNCHANGED <<WATCHED_COINS, EMAIL_USER, EMAIL_PASS, RECIPIENT_EMAIL,
                   START_TIME, UPDATE_FREQUENCY, now, stats, next_run, sched,
                   fired, rendered, env, formatted>>

\* end of the with block (QUIT, then close), then line 131
SmtpClose ==
    /\ run.stage = "Dispatching" /\ smtp.state = "sent"
    /\ \E ok \in BOOLEAN :
         IF ok THEN /\ smtp' = [smtp EXCEPT !.state = "closed"]
                    /\ RunEnds(run, "True", "none")
               ELSE DispatchRaises(run, DispatchErrors.quit)
    /\ UNCHANGED <<WATCHED_COINS, EMAIL_USER, EMAIL_PASS, RECIPIENT_EMAIL,
                   START_TIME, UPDATE_FREQUENCY, now, sent, stats, next_run,
                   sched, fired, rendered, env, formatted>>

-----------------------------------------------------------------------------
(* validate_config, lines 166-184 *)

\* `not value`: the variable is unset or empty
Missing(value) == value = NoValue

validate_config(user, pass, recipient, watched) ==
    IF Missing(user) \/ Missing(pass) \/ Missing(recipient)
    THEN "ValueError: missing variables"
    ELSE IF watched = <<>> THEN "ValueError: no coins"
    ELSE "ok"

ConfigValid ==
    validate_config(EMAIL_USER, EMAIL_PASS, RECIPIENT_EMAIL, WATCHED_COINS)
        = "ok"

(* main, lines 186-217 *)

\* line 192; the ValueError is printed and re-raised by lines 215-217
ValidateConfig ==
    /\ pc = "main"
    /\ LET v == validate_config(EMAIL_USER, EMAIL_PASS, RECIPIENT_EMAIL,
                                WATCHED_COINS)
       IN IF v = "ok" THEN pc' = "validated" /\ UNCHANGED exit_cause
          ELSE pc' = "terminated" /\ exit_cause' = v
    /\ UNCHANGED <<WATCHED_COINS, EMAIL_USER, EMAIL_PASS, RECIPIENT_EMAIL,
                   START_TIME, UPDATE_FREQUENCY, now, run, smtp, sent, stats,
                   next_run, sched, fired, rendered, env, formatted>>

\* lines 195-198
GetNextRunTime ==
    /\ pc = "validated"
    /\ LET t == get_next_run_time(START_TIME, now) IN
       /\ next_run' = [set |-> TRUE, at |-> t.at, fallback |-> t.fallback,
                       raised |-> t.raised, clock |-> now]
       /\ IF t.raised = "none" THEN pc' = "add_job" /\ UNCHANGED exit_cause
          ELSE pc' = "terminated" /\ exit_cause' = t.raised
    /\ stats' = [stats EXCEPT !.anchor_reads = @ + 1]
    /\ UNCHANGED <<WATCHED_COINS, EMAIL_USER, EMAIL_PASS, RECIPIENT_EMAIL,
                   START_TIME, UPDATE_FREQUENCY, now, run, smtp, sent, sched,
                   fired, rendered, env, formatted>>

\* lines 201-206 pass no args/kwargs for the job
JobArgs == <<>>
\* send_crypto_update(coins_to_fetch, recipient_email), line 114
JobArity == 2
binds(args) == Len(args) = JobArity

\* scheduler defaults in force, none is overridden by lines 195-206
MaxInstances == 1
MisfireGraceTime == 1

\* lines 201-213: add_job(send_crypto_update, 'interval', minutes=..,
\* next_run_time=next_run) and scheduler.start(). A scheduler that checks
\* the callable's arguments at registration raises ValueError here, which
\* lines 215-217 re-raise; one that does not starts the job without them.
AddJob ==
    /\ pc = "add_job"
    /\ \E checks_args \in BOOLEAN :
         IF checks_args /\ ~binds(JobArgs)
         THEN /\ pc' = "terminated"
              /\ exit_cause' = "ValueError: job arguments"
              /\ UNCHANGED sched
         ELSE /\ pc' = "scheduler"
              /\ sched' = [started |-> TRUE, job |-> TRUE,
                           next_run_time |-> next_run.at,
                           interval |-> UPDATE_FREQUENCY * SecondsPerMinute,
                           first_fire |-> next_run.at, instances |-> <<>>]
              /\ UNCHANGED exit_cause
    /\ UNCHANGED <<WATCHED_COINS, EMAIL_USER, EMAIL_PASS, RECIPIENT_EMAIL,
                   START_TIME, UPDATE_FREQUENCY, now, run, smtp, sent, stats,
                   next_run, fired, rendered, env, formatted>>

(* the blocking scheduler started at line 213 *)

\* a variant that counts the interval from the clock reading
get_next_fire_time_from_clock(previous_fire_time, interval, clock) ==
    clock + interval

\* interval trigger: the fire time after previous_fire_time
get_next_fire_time(previous_fire_time, interval, clock) ==
    previous_fire_time + interval

\* the latest fire time that is due at `clock` (missed ones are coalesced)
last_due(next_run_time, interval, clock) ==
    next_run_time + ((clock - next_run_time) \div interval) * interval

\* a variant without an instance limit
can_submit_unlimited(instances) == TRUE

\* a job is submitted only below its instance limit
can_submit(instances) == Len(instances) < MaxInstances

\* the scheduler thread wakes up with the job due
ProcessJobs ==
    /\ pc = "scheduler" /\ sched.job
    /\ now >= sched.next_run_time
    /\ Len(fired) + stats.skipped < MaxFires
    /\ LET run_time == last_due(sched.next_run_time, sched.interval, now)
           nxt == get_next_fire_time(run_time, sched.interval, now)
       IN IF can_submit(sched.instances)
          THEN /\ sched' = [sched EXCEPT
                              !.instances = Append(@, [run_time |-> run_time]),
                              !.next_run_time = nxt]
               /\ fired' = Append(fired, run_time)
               /\ UNCHANGED stats
          ELSE /\ sched' = [sched EXCEPT !.next_run_time = nxt]
               /\ stats' = [stats EXCEPT !.skipped = @ + 1]
               /\ UNCHANGED fired
    /\ UNCHANGED <<WATCHED_COINS, EMAIL_USER, EMAIL_PASS, RECIPIENT_EMAIL,
                   START_TIME, UPDATE_FREQUENCY, now, pc, exit_cause, run,
                   smtp, sent, next_run, rendered, env, formatted>>

\* a worker thread takes the submitted instance: a run time older than the
\* grace time is dropped as missed; otherwise send_crypto_update(*JobArgs) is
\* called, which raises TypeError before its first statement because the two
\* parameters are not bound; the executor logs it and the instance ends
JobRun ==
    /\ pc = "scheduler" /\ sched.instances # <<>>
    /\ ~binds(JobArgs)
    /\ LET inst == Head(sched.instances) IN
       IF now - inst.run_time > MisfireGraceTime
       THEN stats' = [stats EXCEPT !.missed = @ + 1]
       ELSE stats' = [stats EXCEPT !.job_calls = @ + 1, !.job_errors = @ + 1]
    /\ sched' = [sched EXCEPT !.instances = Tail(@)]
    /\ UNCHANGED <<WATCHED_COINS, EMAIL_USER, EMAIL_PASS, RECIPIENT_EMAIL,
                   START_TIME, UPDATE_FREQUENCY, now, pc, exit_cause, run,
                   smtp, sent, next_run, fired, rendered, env, formatted>>

\* the scheduler thread sleeps until the next fire time
Sleep ==
    /\ pc = "scheduler" /\ sched.job
    /\ now < sched.next_run_time
    /\ now' = sched.next_run_time
    /\ UNCHANGED <<WATCHED_COINS, EMAIL_USER, EMAIL_PASS, RECIPIENT_EMAIL,
                   START_TIME, UPDATE_FREQUENCY, pc, exit_cause, run, smtp,
                   sent, stats, next_run, sched, fired, rendered, env,
                   formatted>>

\* time passes while the scheduler is running: more than the grace time, or
\* a minute
TickSteps == {MisfireGraceTime + 1, SecondsPerMinute}

Tick ==
    /\ pc = "scheduler"
    /\ stats.ticks < MaxTicks
    /\ \E d \in TickSteps : now' = now + d
    /\ stats' = [stats EXCEPT !.ticks = @ + 1]
    /\ UNCHANGED <<WATCHED_COINS, EMAIL_USER, EMAIL_PASS, RECIPIENT_EMAIL,
                   START_TIME, UPDATE_FREQUENCY, pc, exit_cause, run, smtp,
                   sent, next_run, sched, fired, rendered, env, formatted>>

-----------------------------------------------------------------------------
(* The process: import of the module, then lines 219-228 *)

Init ==
    /\ WATCHED_COINS \in SeqsUpTo(WatchIds, MaxCoins)
    /\ EMAIL_USER \in {NoValue, "sender@example.com"}
    /\ EMAIL_PASS \in {NoValue, "app-password"}
    /\ RECIPIENT_EMAIL \in {NoValue, "recipient@example.com"}
    /\ START_TIME \in {<<"0", "9", ":", "0", "0">>, <<"2", "5", ":", "9", "9">>}
    /\ UPDATE_FREQUENCY \in FrequencySamples
    /\ now \in {ClockAt(0, 8, 0, 0), ClockAt(0, 10, 0, 0)}
    /\ pc = "startup"
    /\ exit_cause = "none"
    /\ run = IdleRun
    /\ smtp = NoSession
    /\ sent = <<>>
    /\ stats = NoStats
    /\ next_run = NoNextRun
    /\ sched = NoSched
    /\ fired = <<>>
    /\ rendered = NoRender
    /\ env = NoEnv
    /\ formatted = NoFormat

Next ==
    \/ StartupCall
    \/ Fetch
    \/ Render
    \/ SmtpConnect
    \/ SmtpStartTls
    \/ SmtpLogin
    \/ SmtpSend
    \/ SmtpClose
    \/ ReportOutcome
    \/ ValidateConfig
    \/ GetNextRunTime
    \/ AddJob
    \/ ProcessJobs
    \/ JobRun
    \/ Sleep
    \/ Tick

Spec == Init /\ [][Next]_vars

-----------------------------------------------------------------------------
(* create_crypto_email_body applied to any watch list and any collection *)

RenderAlone ==
    /\ pc = "render" /\ ~rendered.done
    /\ LET res == create_crypto_email_body(WATCHED_COINS, rendered.coins_data)
       IN rendered' = [rendered EXCEPT !.done = TRUE, !.raised = res.raised,
                                       !.body = res.body]
    /\ UNCHANGED <<WATCHED_COINS, EMAIL_USER, EMAIL_PASS, RECIPIENT_EMAIL,
                   START_TIME, UPDATE_FREQUENCY, now, pc, exit_cause, run,
                   smtp, sent, stats, next_run, sched, fired, env, formatted>>

InitRender ==
    /\ WATCHED_COINS \in SeqsUpTo(WatchIds, MaxCoins)
    /\ \E d \in SeqsUpTo(MarketRecords, MaxRecords) :
         rendered = [NoRender EXCEPT !.coins_data = d]
    /\ EMAIL_USER = NoValue /\ EMAIL_PASS = NoValue
    /\ RECIPIENT_EMAIL = NoValue
    /\ START_TIME = <<>> /\ UPDATE_FREQUENCY = 1 /\ now = 0
    /\ pc = "render" /\ exit_cause = "none"
    /\ run = IdleRun /\ smtp = NoSession /\ sent = <<>> /\ stats = NoStats
    /\ next_run = NoNextRun /\ sched = NoSched /\ fired = <<>>
    /\ env = NoEnv /\ formatted = NoFormat

NextRender == RenderAlone

SpecRender == InitRender /\ [][NextRender]_vars

(* get_next_run_time applied to any anchor string at any clock reading *)

ClockSamples ==
    { ClockAt(d, h, m, sec) : d \in {0, 1}, h \in {0, 8, 9, 10, 14, 23},
                              m \in {0, 5, 30, 59}, sec \in {0, 1, 59} }

AnchorAlone ==
    /\ pc = "anchor" /\ ~next_run.set
    /\ LET t == get_next_run_time(START_TIME, now) IN
       next_run' = [set |-> TRUE, at |-> t.at, fallback |-> t.fallback,
                    raised |-> t.raised, clock |-> now]
    /\ UNCHANGED <<WATCHED_COINS, EMAIL_USER, EMAIL_PASS, RECIPIENT_EMAIL,
                   START_TIME, UPDATE_FREQUENCY, now, pc, exit_cause, run,
                   smtp, sent, stats, sched, fired, rendered, env, formatted>>

InitAnchor ==
    /\ START_TIME \in AnchorStrings
    /\ now \in ClockSamples
    /\ WATCHED_COINS = <<>>
    /\ EMAIL_USER = NoValue /\ EMAIL_PASS = NoValue
    /\ RECIPIENT_EMAIL = NoValue /\ UPDATE_FREQUENCY = 1
    /\ pc = "anchor" /\ exit_cause = "none"
    /\ run = IdleRun /\ smtp = NoSession /\ sent = <<>> /\ stats = NoStats
    /\ next_run = NoNextRun /\ sched = NoSched /\ fired = <<>>
    /\ rendered = NoRender
    /\ env = NoEnv /\ formatted = NoFormat

NextAnchor == AnchorAlone

SpecAnchor == InitAnchor /\ [][NextAnchor]_vars

(* get_watched_coins applied to any setting of the two variables (line 49) *)

\* WATCHED_COINS holds the Python value that line 49 binds, in full
ResolveCoins ==
    /\ pc = "import"
    /\ LET r == get_watched_coins(env) IN
       IF r.raised = "none"
       THEN /\ WATCHED_COINS' = r.value
            /\ pc' = "imported"
            /\ UNCHANGED exit_cause
       ELSE /\ pc' = "import failed"
            /\ exit_cause' = r.raised
            /\ UNCHANGED WATCHED_COINS
    /\ UNCHANGED <<EMAIL_USER, EMAIL_PASS, RECIPIENT_EMAIL, START_TIME,
                   UPDATE_FREQUENCY, now, run, smtp, sent, stats, next_run,
                   sched, fired, rendered, env, formatted>>

InitCoins ==
    /\ \E j \in JsonSettings, l \in ListSettings :
         env = [WATCHED_COINS |-> j, WATCHED_COINS_LIST |-> l]
    /\ WATCHED_COINS = <<>>
    /\ EMAIL_USER = NoValue /\ EMAIL_PASS = NoValue
    /\ RECIPIENT_EMAIL = NoValue
    /\ START_TIME = <<>> /\ UPDATE_FREQUENCY = 1 /\ now = 0
    /\ pc = "import" /\ exit_cause = "none"
    /\ run = IdleRun /\ smtp = NoSession /\ sent = <<>> /\ stats = NoStats
    /\ next_run = NoNextRun /\ sched = NoSched /\ fired = <<>>
    /\ rendered = NoRender /\ formatted = NoFormat

NextCoins == ResolveCoins

SpecCoins == InitCoins /\ [][NextCoins]_vars

(* format_percentage applied to any change figure *)

PctValues == {Null} \cup {Some(v) : v \in (0 - MaxPct)..MaxPct}

FormatAlone ==
    /\ pc = "format" /\ ~formatted.done
    /\ LET f == format_percentage(formatted.value) IN
       formatted' = [formatted EXCEPT !.done = TRUE, !.text = f.text,
                                      !.color = f.color]
    /\ UNCHANGED <<WATCHED_COINS, EMAIL_USER, EMAIL_PASS, RECIPIENT_EMAIL,
                   START_TIME, UPDATE_FREQUENCY, now, pc, exit_cause, run,
                   smtp, sent, stats, next_run, sched, fired, rendered, env>>

InitFormat ==
    /\ \E v \in PctValues : formatted = [NoFormat EXCEPT !.value = v]
    /\ WATCHED_COINS = <<>>
    /\ EMAIL_USER = NoValue /\ EMAIL_PASS = NoValue
    /\ RECIPIENT_EMAIL = NoValue
    /\ START_TIME = <<>> /\ UPDATE_FREQUENCY = 1 /\ now = 0
    /\ pc = "format" /\ exit_cause = "none"
    /\ run = IdleRun /\ smtp = NoSession /\ sent = <<>> /\ stats = NoStats
    /\ next_run = NoNextRun /\ sched = NoSched /\ fired = <<>>
    /\ rendered = NoRender /\ env = NoEnv

NextFormat == FormatAlone

SpecFormat == InitFormat /\ [][NextFormat]_vars

(* send_crypto_update called with any identifier sequence, beside any *)
(* module-level watch list (line 114)                                  *)

InitRun ==
    /\ WATCHED_COINS \in SeqsUpTo(WatchIds, MaxCoins)
    /\ \E coins \in SeqsUpTo(WatchIds, MaxCoins) :
         run = [IdleRun EXCEPT !.stage = "Fetching", !.caller = "call",
                               !.coins_to_fetch = coins,
                               !.recipient_email = "recipient@example.com"]
    /\ EMAIL_USER = "sender@example.com" /\ EMAIL_PASS = "app-password"
    /\ RECIPIENT_EMAIL = "recipient@example.com"
    /\ START_TIME = <<>> /\ UPDATE_FREQUENCY = 1 /\ now = 0
    /\ pc = "call" /\ exit_cause = "none"
    /\ smtp = NoSession /\ sent = <<>> /\ stats = NoStats
    /\ next_run = NoNextRun /\ sched = NoSched /\ fired = <<>>
    /\ rendered = NoRender /\ env = NoEnv /\ formatted = NoFormat

NextRun ==
    \/ Fetch
    \/ Render
    \/ SmtpConnect
    \/ SmtpStartTls
    \/ SmtpLogin
    \/ SmtpSend
    \/ SmtpClose

SpecRun == InitRun /\ [][NextRun]_vars

-----------------------------------------------------------------------------
(* Properties *)

HasRecordFor(coins_data, coin_id) ==
    \E k \in 1..Len(coins_data) : coins_data[k].id = coin_id

\* C1: rendering any watch list against any fetched collection emits one
\* item per watch-list position, in watch-list order: a rendered entry when
\* the collection has a record with that identifier, otherwise an error
\* placeholder naming it (checked under SpecRender).
C1_OneItemPerWatchedCoin ==
    rendered.done =>
        /\ rendered.raised = "none"
        /\ Len(rendered.body) = Len(WATCHED_COINS)
        /\ \A i \in 1..Len(WATCHED_COINS) :
              IF HasRecordFor(rendered.coins_data, WATCHED_COINS[i])
              THEN /\ rendered.body[i].kind = "entry"
                   /\ rendered.body[i].name = Upper(WATCHED_COINS[i])
              ELSE /\ rendered.body[i].kind = "error"
                   /\ rendered.body[i].coin_id = WATCHED_COINS[i]

\* C2: a run whose fetch yields the failure result ends with outcome False
\* and without any dispatch: send_email is not called and no transport
\* session is opened.
C2_FetchFailureMeansNoDispatch ==
    run.fetch = "failure" =>
        /\ run.stage = "Idle"
        /\ run.outcome = "False"
        /\ run.rendered = FALSE
        /\ run.dispatches = 0
        /\ run.sessions = 0
        /\ smtp.state = "none"

C2_Witness ==
    /\ run.fetch = "failure" /\ run.fetches = 1
    /\ run.outcome = "False" /\ pc = "returned"

\* C3: every run whose fetch succeeded, a fetch of zero records included,
\* is rendered and attempts exactly one dispatch before it ends.
C3_SuccessfulFetchIsRenderedAndDispatched ==
    (run.fetch = "ok" /\ run.stage = "Idle") =>
        /\ run.rendered
        /\ run.dispatches = 1

\* C4: an error raised while dispatching (connect, starttls, login, send,
\* quit) makes the run return False; it never leaves send_crypto_update as
\* an exception.
C4_DispatchErrorBecomesFalse ==
    run.error # "none" =>
        /\ run.stage = "Idle"
        /\ run.outcome = "False"
        /\ exit_cause # run.error

C4_Witness ==
    /\ run.error = DispatchErrors.login
    /\ run.sessions = 1
    /\ run.outcome = "False" /\ pc = "returned"

\* C5: once the configuration has validated the process does not terminate,
\* and every execution of the scheduled job runs the pipeline.
C5_SchedulerKeepsRunningThePipeline ==
    /\ next_run.set => pc # "terminated"
    /\ stats.job_errors = 0

\* C6: for a well-formed anchor HH:MM the first fire time is today at HH:MM
\* when that is strictly later than the clock reading and tomorrow at HH:MM
\* otherwise; it is strictly after the reading and at most 24 hours after it
\* (checked under SpecAnchor).
C6_FirstFireIsNextAnchorMoment ==
    \A a \in WellFormedAnchors :
        (next_run.set /\ START_TIME = a.text) =>
            LET today == ClockAt(DateOf(next_run.clock), a.hour, a.minute, 0)
            IN /\ next_run.raised = "none" /\ ~next_run.fallback
               /\ next_run.at = IF today > next_run.clock
                                THEN today ELSE today + SecondsPerDay
               /\ next_run.at > next_run.clock
               /\ next_run.at <= next_run.clock + SecondsPerDay

C6_Witness ==
    /\ next_run.set
    /\ START_TIME = <<"0", "9", ":", "0", "0">>
    /\ next_run.clock = ClockAt(0, 9, 0, 0)
    /\ next_run.at = ClockAt(1, 9, 0, 0)

OnGrid(t) ==
    /\ t >= next_run.at
    /\ (t - next_run.at) % (UPDATE_FREQUENCY * SecondsPerMinute) = 0

InFlight ==
    (IF run.stage # "Idle" THEN 1 ELSE 0) + Len(sched.instances)

C10_NoRunOnInvalidConfiguration ==
    /\ ~ConfigValid =>
          /\ stats.fetch_calls = 0
          /\ stats.dispatches = 0
          /\ ~sched.job
    /\ stats.empty_fetches = 0

\* the watch list of a WATCHED_COINS_LIST value known by its fields
FieldsAsList(fields) == PyList([i \in 1..Len(fields) |-> PyStr(fields[i])])

\* C11: the resolver never raises; a WATCHED_COINS value that parses as JSON
\* is the watch list; otherwise a non-empty WATCHED_COINS_LIST gives the
\* watch list, its fields in order; otherwise the watch list is the pair
\* bitcoin, ethereum.
C11_JsonThenDelimitedThenDefault ==
    pc \in {"imported", "import failed"} =>
        /\ pc = "imported"
        /\ IF \E j \in ValidJson : env.WATCHED_COINS = Text(j.text)
           THEN \E j \in ValidJson : /\ env.WATCHED_COINS = Text(j.text)
                                     /\ WATCHED_COINS = j.value
           ELSE IF \E l \in DelimitedLists :
                       env.WATCHED_COINS_LIST = Text(l.text)
           THEN \E l \in DelimitedLists :
                    /\ env.WATCHED_COINS_LIST = Text(l.text)
                    /\ WATCHED_COINS = FieldsAsList(l.fields)
           ELSE WATCHED_COINS = DefaultCoins

\* an invalid JSON form beside a delimited form: the delimited form is used
C11_Witness ==
    /\ pc = "imported"
    /\ \E t \in InvalidJson : env.WATCHED_COINS = Text(t)
    /\ \E l \in DelimitedLists : env.WATCHED_COINS_LIST = Text(l.text)
    /\ WATCHED_COINS.t = "list" /\ Len(WATCHED_COINS.v) = 2

Trimmed(chars) ==
    chars # <<>> /\ chars[1] # " " /\ chars[Len(chars)] # " "

\* C12: every element of the resolved watch list is a non-empty string
\* without blanks around it.
C12_ElementsNonEmptyAndTrimmed ==
    pc = "imported" =>
        /\ WATCHED_COINS.t = "list"
        /\ \A i \in 1..Len(WATCHED_COINS.v) :
             /\ WATCHED_COINS.v[i].t = "str"
             /\ Trimmed(WATCHED_COINS.v[i].v)

\* C13: an absent change figure is formatted as N/A without a colour, a
\* figure above zero is green, a figure of zero or below is red.
C13_PercentageColour ==
    formatted.done =>
        IF formatted.value = Null
        THEN formatted.text = "N/A" /\ formatted.color = "none"
        ELSE /\ formatted.text = formatted.value[1]
             /\ formatted.value[1] > 0 => formatted.color = "green"
             /\ formatted.value[1] <= 0 => formatted.color = "red"

\* a change of exactly zero has been formatted
C13_Witness ==
    formatted.done /\ formatted.value = Some(0) /\ formatted.color = "red"

\* C14: create_crypto_email_body returns a document for every watch list and
\* every collection of records, raising nothing.
C14_RenderingNeverRaises ==
    rendered.done => rendered.raised = "none"

FetchErrors == FetchOutcomes \ {"ok"}

\* C15: whatever goes wrong with the request or its payload, the fetch gives
\* the failure result and the run ends with False, raising nothing.
C15_FetchErrorBecomesFalse ==
    (run.io \in FetchErrors /\ run.stage # "Fetching") =>
        /\ run.fetch = "failure"
        /\ run.stage = "Idle" /\ run.outcome = "False"
        /\ pc # "terminated"

SessionSteps ==
    { <<"none", "open">>, <<"open", "tls">>, <<"tls", "authed">>,
      <<"authed", "sent">>, <<"sent", "closed">>, <<"open", "closed">>,
      <<"tls", "closed">>, <<"authed", "closed">>, <<"closed", "none">> }

\* C16: a session goes through connect, starttls, login, send, close in that
\* order; a message is handed over only in an upgraded, logged-in session,
\* one per session; when the dispatch ends, by return or by exception, a
\* session that was opened is closed.
C16_SessionStep ==
    /\ smtp'.state # smtp.state => <<smtp.state, smtp'.state>> \in SessionSteps
    /\ sent' # sent =>
         /\ smtp.state = "authed" /\ smtp'.state = "sent"
         /\ sent' = Append(sent, smtp.msg)
    /\ (run.stage = "Dispatching" /\ run'.stage # "Dispatching") =>
         /\ smtp'.state \in {"none", "closed"}
         /\ smtp.state # "none" => smtp'.state = "closed"
    /\ run'.stage # "Dispatching" => smtp'.state \in {"none", "closed"}

C16_SessionOrderedAndClosed == [][C16_SessionStep]_vars

\* the login was refused after the upgrade: the session is closed
C16_Witness ==
    /\ run.stage = "Idle" /\ run.error = DispatchErrors.login
    /\ smtp.state = "closed" /\ sent = <<>>

RunFinished == run.caller = "startup" /\ run.stage = "Idle"

\* C17: a finished run made one fetch and at most one dispatch attempt, and
\* returned True if the fetch succeeded and the dispatch completed without
\* error, False otherwise.
C17_OneFetchOneDispatchBooleanOutcome ==
    RunFinished =>
        /\ run.fetches = 1
        /\ run.dispatches <= 1
        /\ run.outcome \in {"True", "False"}
        /\ run.outcome = "True" <=>
             (run.fetch = "ok" /\ run.dispatches = 1 /\ run.error = "none")

\* C18: every message handed to the transport is addressed to
\* RECIPIENT_EMAIL.
C18_MessagesGoToConfiguredRecipient ==
    \A i \in 1..Len(sent) : sent[i].To = RECIPIENT_EMAIL

ItemIsFor(item, coin_id) ==
    IF item.kind = "entry" THEN item.name = Upper(coin_id)
                           ELSE item.coin_id = coin_id

\* C19: the report of a run has one item per element of coins_to_fetch, in
\* the order of coins_to_fetch.
C19_ReportFollowsCoinsToFetch ==
    (run.caller = "call" /\ run.stage = "Dispatching") =>
        /\ Len(run.email_body) = Len(run.coins_to_fetch)
        /\ \A i \in 1..Len(run.email_body) :
             ItemIsFor(run.email_body[i], run.coins_to_fetch[i])

====
